---- MODULE Spec2Model ----
(***************************************************************************)
(* The whole-database POST /query pipeline of the PDF Query API:           *)
(* request validation, embedding, the sequential fan-out over every        *)
(* (index, namespace) pair, merge and rank, context/reference extraction,  *)
(* the optional chat-completion call and the response.                     *)
(*                                                                         *)
(* Strings the code builds (the context, the error detail) are sequences   *)
(* of tokens, so that emptiness and concatenation are computed.            *)
(***************************************************************************)
EXTENDS Integers, Sequences, FiniteSets

(* ---------------------------- program constants ------------------------ *)

\* QueryRequest.top_k: Field(ge=1, le=20)
MinTopK == 1
MaxTopK == 20

FallbackText == "I don't have enough information to answer this question."

(* ------------------------------- bounds -------------------------------- *)

\* The provider stops returning matches once this many were collected in
\* one request.
MaxTotal == 3

(* ----------------------- the provider's possible data ------------------ *)

\* What list_indexes() may return: the index names, in enumeration order.
IndexListings == {<<>>, <<"A", "B">>}

\* What list_namespaces(index_name) may return (the keys of a mapping, so
\* distinct names).
NamespaceListings(index_name) ==
    IF index_name = "A" THEN {<<"x">>, <<"x", "y">>} ELSE {<<>>, <<"y">>}

\* The matches a search may return, before the provider numbers them:
\* similarity scores are scaled by 100 (0.80, 0.90, 0.95), every score occurs
\* more than once, and the metadata key and each metadata field may be
\* missing.  A page is a number or some other value.
RawMatches ==
    { [score |-> 95, metadata |-> [text |-> <<"chunk">>]],
      [score |-> 90, metadata |-> [text |-> <<"chunk">>,
                                   file_name |-> "gst.pdf",
                                   page |-> [num |-> 7]]],
      [score |-> 90, metadata |-> [file_name |-> "act.pdf",
                                   page |-> [num |-> 3]]],
      [score |-> 80, metadata |-> [file_name |-> "act.pdf",
                                   page |-> [str |-> "iv"]]],
      [score |-> 90, metadata |-> [text |-> <<"chunk">>,
                                   file_name |-> "act.pdf",
                                   page |-> [str |-> "iv"]]],
      [score |-> 80, metadata |-> [text |-> <<>>, file_name |-> "gst.pdf"]],
      [score |-> 95] }

\* The top_k values a client sends: both rejected neighbours of the valid
\* range, its two ends and one value in between.
TopKInputs == {MinTopK - 1, MinTopK, MinTopK + 1, MaxTopK, MaxTopK + 1}

ProviderErrors == {"503 unavailable"}
Answers == {"generated answer"}

(* ------------------------------- state --------------------------------- *)

VARIABLES
    pc,           \* position of the request in handle_query and its callees
    top_k,        \* request.top_k
    indexes,      \* query_entire_database: indexes
    i,            \* position of the `for index_name in indexes` loop
    namespaces,   \* query_entire_database: namespaces of the current index
    j,            \* position of the `for namespace in namespaces` loop
    all_results,  \* query_entire_database: all_results
    top_results,  \* query_entire_database: the returned "matches"
    contexts,     \* extract_context_and_references: contexts
    context,      \* the combined context returned to handle_query
    references,   \* the references returned to handle_query
    outcome,      \* "none", "rejected", "response" or "error" (HTTP 500)
    response,     \* the QueryResponse, when outcome = "response"
    detail,       \* the HTTPException detail, when outcome = "error"
    calls,        \* history: every provider call made, in order
    inflight      \* history: provider calls issued and not yet returned

vars == <<pc, top_k, indexes, i, namespaces, j, all_results, top_results,
          contexts, context, references, outcome, response, detail, calls,
          inflight>>

NoResponse == [response |-> "", success |-> FALSE, references |-> <<>>]

Init ==
    /\ pc = "received"
    /\ top_k \in TopKInputs
    /\ indexes = <<>>
    /\ i = 1
    /\ namespaces = <<>>
    /\ j = 1
    /\ all_results = <<>>
    /\ top_results = <<>>
    /\ contexts = <<>>
    /\ context = <<>>
    /\ references = <<>>
    /\ outcome = "none"
    /\ response = NoResponse
    /\ detail = <<>>
    /\ calls = <<>>
    /\ inflight = 0

(* ----------------------------- pure helpers ---------------------------- *)

Min(a, b) == IF a <= b THEN a ELSE b

\* One entry of the call history: the provider operation, its arguments,
\* whether it succeeded and the sequence it returned.
Call(op, index_name, namespace, ok, result) ==
    [op |-> op, index_name |-> index_name, namespace |-> namespace,
     ok |-> ok, result |-> result]

\* A validation that forgot the upper end of the range.
ValidTopKNoUpper(k) == k >= MinTopK

\* QueryRequest validation of top_k.
ValidTopK(k) == k >= MinTopK /\ k <= MaxTopK

\* A slice that keeps everything.
SliceAll(s, k) == s

\* Python's s[:k].
Slice(s, k) ==
    IF k >= 0 THEN SubSeq(s, 1, Min(k, Len(s)))
    ELSE SubSeq(s, 1, IF Len(s) + k >= 0 THEN Len(s) + k ELSE 0)

\* The provider's answer to index.query(top_k=k): at most k matches, each
\* with its own vector id.
WithId(raw, id) ==
    IF "metadata" \in DOMAIN raw
    THEN [id |-> id, score |-> raw.score, metadata |-> raw.metadata]
    ELSE [id |-> id, score |-> raw.score]

QueryResults(limit) ==
    UNION { { [p \in 1..n |-> WithId(f[p], p)] : f \in [1..n -> RawMatches] }
            : n \in 0..limit }

\* query_namespace, lines 62-64: match['index_name'] = index_name and
\* match['namespace'] = namespace, for one match.
AnnotateMatch(match, index_name, namespace) ==
    IF "metadata" \in DOMAIN match
    THEN [id |-> match.id, score |-> match.score, metadata |-> match.metadata,
          index_name |-> index_name, namespace |-> namespace]
    ELSE [id |-> match.id, score |-> match.score,
          index_name |-> index_name, namespace |-> namespace]

Annotate(matches, index_name, namespace) ==
    [p \in 1..Len(matches) |-> AnnotateMatch(matches[p], index_name, namespace)]

\* An insertion that puts a match in front of the matches of equal score,
\* as a sort that is not stable may.
RECURSIVE InsertBeforeTies(_, _)
InsertBeforeTies(sorted, match) ==
    IF sorted = <<>> THEN <<match>>
    ELSE IF Head(sorted).score > match.score
         THEN <<Head(sorted)>> \o InsertBeforeTies(Tail(sorted), match)
         ELSE <<match>> \o sorted

\* list.sort(key=lambda x: x['score'], reverse=True): a stable sort, so a
\* match goes behind every match whose score is at least its own.
RECURSIVE InsertByScore(_, _)
InsertByScore(sorted, match) ==
    IF sorted = <<>> THEN <<match>>
    ELSE IF Head(sorted).score >= match.score
         THEN <<Head(sorted)>> \o InsertByScore(Tail(sorted), match)
         ELSE <<match>> \o sorted

RECURSIVE SortByScore(_)
SortByScore(results) ==
    IF results = <<>> THEN <<>>
    ELSE InsertByScore(SortByScore(SubSeq(results, 1, Len(results) - 1)),
                       results[Len(results)])

\* query_entire_database, lines 106-107.
TopResults(results, k) == Slice(SortByScore(results), k)

HasText(match) ==
    "metadata" \in DOMAIN match /\ "text" \in DOMAIN match.metadata

HasFileAndPage(match) ==
    /\ "metadata" \in DOMAIN match
    /\ "file_name" \in DOMAIN match.metadata
    /\ "page" \in DOMAIN match.metadata

\* Reference(...) validates page: int.
ReferenceValid(match) == "num" \in DOMAIN match.metadata.page

\* Reference(file_name=, page=, namespace=, index_name=): the model class
\* declares file_name, page and namespace; an undeclared keyword is ignored.
Reference(match) ==
    [file_name |-> match.metadata.file_name,
     page |-> match.metadata.page.num,
     namespace |-> match.namespace]

\* The context fragment of one match with text: source_info + text.
Fragment(match) ==
    <<"[Source: ", match.index_name, "/", match.namespace, "]\n">>
        \o match.metadata.text

RECURSIVE ExtractContexts(_)
ExtractContexts(matches) ==
    IF matches = <<>> THEN <<>>
    ELSE (IF HasText(Head(matches)) THEN <<Fragment(Head(matches))>> ELSE <<>>)
         \o ExtractContexts(Tail(matches))

\* An extraction that looks for file_name and page only in matches with
\* text.
RECURSIVE ExtractReferencesNeedText(_)
ExtractReferencesNeedText(matches) ==
    IF matches = <<>> THEN <<>>
    ELSE (IF HasText(Head(matches)) /\ HasFileAndPage(Head(matches))
          THEN <<Reference(Head(matches))>> ELSE <<>>)
         \o ExtractReferencesNeedText(Tail(matches))

RECURSIVE ExtractReferences(_)
ExtractReferences(matches) ==
    IF matches = <<>> THEN <<>>
    ELSE (IF HasFileAndPage(Head(matches))
          THEN <<Reference(Head(matches))>> ELSE <<>>)
         \o ExtractReferences(Tail(matches))

\* The loop raises at the first match whose Reference does not validate.
ExtractRaises(matches) ==
    \E p \in 1..Len(matches) :
        HasFileAndPage(matches[p]) /\ ~ReferenceValid(matches[p])

\* "\n\n".join(contexts) if contexts else ""
RECURSIVE Join(_)
Join(fragments) ==
    IF fragments = <<>> THEN <<>>
    ELSE IF Len(fragments) = 1 THEN Head(fragments)
    ELSE Head(fragments) \o <<"\n\n">> \o Join(Tail(fragments))

(* ------------------------------ the request ---------------------------- *)

\* FastAPI validates the body against QueryRequest before handle_query runs:
\* a top_k outside the range is answered 422 and the handler never starts.
Validate ==
    /\ pc = "received"
    /\ IF ValidTopK(top_k)
       THEN /\ pc' = "embed"
            /\ outcome' = outcome
       ELSE /\ pc' = "done"
            /\ outcome' = "rejected"
    /\ UNCHANGED <<top_k, indexes, i, namespaces, j, all_results,
                   top_results, contexts, context, references, response,
                   detail, calls, inflight>>

\* A handler that answers a failure with an unsuccessful QueryResponse.
RespondUnsuccessful(message) ==
    /\ pc' = "done"
    /\ outcome' = "response"
    /\ detail' = message

\* handle_query's except clause: HTTPException(status_code=500,
\* detail=str(e)).  The pipeline stops where the exception was raised.
Raise500(message) ==
    /\ pc' = "done"
    /\ outcome' = "error"
    /\ detail' = message

\* The two wrappers between query_entire_database and handle_query.
SearchFailed(message) ==
    <<"Database-wide search failed: ">> \o message

QueryFailed(message) ==
    SearchFailed(<<"Database-wide query failed: ">> \o message)

\* query_entire_database, line 84: generate_embedding.
Embed ==
    /\ pc = "embed"
    /\ \/ /\ calls' = Append(calls, Call("embed", "", "", TRUE, <<>>))
          /\ pc' = "list_indexes"
          /\ UNCHANGED <<outcome, detail>>
       \/ \E e \in ProviderErrors :
          /\ calls' = Append(calls, Call("embed", "", "", FALSE, <<>>))
          /\ Raise500(QueryFailed(
                 <<"OpenAI Embedding API call failed: ", e>>))
    /\ UNCHANGED <<top_k, indexes, i, namespaces, j, all_results,
                   top_results, contexts, context, references, response,
                   inflight>>

\* Where the index loop stands after moving to position n: at the next
\* index, or past the last one, at the sort.
IndexLoopPc(listing, n) == IF n <= Len(listing) THEN "list_namespaces" ELSE "sort"

\* query_entire_database, line 89: list_indexes.
ListIndexes ==
    /\ pc = "list_indexes"
    /\ \/ \E listing \in IndexListings :
          /\ calls' = Append(calls,
                 Call("list_indexes", "", "", TRUE, listing))
          /\ indexes' = listing
          /\ i' = 1
          /\ pc' = IndexLoopPc(listing, 1)
          /\ UNCHANGED <<outcome, detail>>
       \/ \E e \in ProviderErrors :
          /\ calls' = Append(calls, Call("list_indexes", "", "", FALSE, <<>>))
          /\ Raise500(QueryFailed(<<"Failed to list indexes: ", e>>))
          /\ UNCHANGED <<indexes, i>>
    /\ UNCHANGED <<top_k, namespaces, j, all_results, top_results, contexts,
                   context, references, response, inflight>>

\* query_entire_database, lines 92-95 and 101-103: list_namespaces of the
\* current index; a failure is printed and the loop continues with the next
\* index.
ListNamespaces ==
    /\ pc = "list_namespaces"
    /\ \/ \E listing \in NamespaceListings(indexes[i]) :
          /\ calls' = Append(calls,
                 Call("list_namespaces", indexes[i], "", TRUE, listing))
          /\ namespaces' = listing
          /\ j' = 1
          /\ IF listing = <<>>
             THEN /\ i' = i + 1
                  /\ pc' = IndexLoopPc(indexes, i + 1)
             ELSE /\ i' = i
                  /\ pc' = "query_namespace"
       \/ /\ calls' = Append(calls,
                 Call("list_namespaces", indexes[i], "", FALSE, <<>>))
          /\ i' = i + 1
          /\ pc' = IndexLoopPc(indexes, i + 1)
          /\ UNCHANGED <<namespaces, j>>
    /\ UNCHANGED <<top_k, indexes, all_results, top_results, contexts,
                   context, references, outcome, response, detail, inflight>>

\* query_namespace, lines 53-59: the search of the current namespace is
\* sent to the provider.
QueryIssue ==
    /\ pc = "query_namespace"
    /\ inflight' = inflight + 1
    /\ pc' = "query_wait"
    /\ UNCHANGED <<top_k, indexes, i, namespaces, j, all_results,
                   top_results, contexts, context, references, outcome,
                   response, detail, calls>>

\* A namespace loop that leaves the index after its first namespace.
AfterNamespaceBreaks ==
    /\ j' = j + 1
    /\ i' = i + 1
    /\ pc' = IndexLoopPc(indexes, i + 1)

\* After the current namespace: the next namespace, or the next index.
AfterNamespace ==
    IF j + 1 <= Len(namespaces)
    THEN /\ j' = j + 1
         /\ i' = i
         /\ pc' = "query_namespace"
    ELSE /\ j' = j + 1
         /\ i' = i + 1
         /\ pc' = IndexLoopPc(indexes, i + 1)

\* query_namespace, lines 62-66, and query_entire_database, line 100: the
\* provider answers with matches; annotated, they extend all_results.
QueryReturnMatches ==
    /\ pc = "query_wait"
    /\ inflight' = inflight - 1
    /\ \E matches \in QueryResults(Min(top_k, MaxTotal - Len(all_results))) :
          LET annotated == Annotate(matches, indexes[i], namespaces[j]) IN
          /\ calls' = Append(calls,
                 Call("query", indexes[i], namespaces[j], TRUE, annotated))
          /\ all_results' = all_results \o annotated
    /\ AfterNamespace
    /\ UNCHANGED <<top_k, indexes, namespaces, top_results, contexts,
                   context, references, outcome, response, detail>>

\* A failed search that propagates and ends the request.
QueryFailureAborts ==
    /\ pc = "query_wait"
    /\ inflight' = inflight - 1
    /\ calls' = Append(calls,
           Call("query", indexes[i], namespaces[j], FALSE, <<>>))
    /\ pc' = "done"
    /\ outcome' = "error"
    /\ detail' = <<"Database-wide search failed: ",
                   "Database-wide query failed: ", "503 unavailable">>
    /\ UNCHANGED <<top_k, indexes, i, namespaces, j, all_results,
                   top_results, contexts, context, references, response>>

\* query_namespace, lines 67-69: the provider call fails; the error is
\* printed, [] is returned and extends all_results.
QueryReturnFailure ==
    /\ pc = "query_wait"
    /\ inflight' = inflight - 1
    /\ calls' = Append(calls,
           Call("query", indexes[i], namespaces[j], FALSE, <<>>))
    /\ all_results' = all_results \o <<>>
    /\ AfterNamespace
    /\ UNCHANGED <<top_k, indexes, namespaces, top_results, contexts,
                   context, references, outcome, response, detail>>

\* query_entire_database, lines 106-109.
SortAndTruncate ==
    /\ pc = "sort"
    /\ top_results' = TopResults(all_results, top_k)
    /\ pc' = "extract"
    /\ UNCHANGED <<top_k, indexes, i, namespaces, j, all_results, contexts,
                   context, references, outcome, response, detail, calls,
                   inflight>>

\* extract_context_and_references, called by search_entire_database.
Extract ==
    /\ pc = "extract"
    /\ IF ExtractRaises(top_results)
       THEN /\ Raise500(SearchFailed(<<"Failed to extract context: ",
                                       "validation error for Reference">>))
            /\ UNCHANGED <<contexts, context, references>>
       ELSE /\ contexts' = ExtractContexts(top_results)
            /\ context' = Join(ExtractContexts(top_results))
            /\ references' = ExtractReferences(top_results)
            /\ pc' = "check_context"
            /\ UNCHANGED <<outcome, detail>>
    /\ UNCHANGED <<top_k, indexes, i, namespaces, j, all_results,
                   top_results, response, calls, inflight>>

\* QueryResponse(response=, success=, references=).
QueryResponse(text, success, refs) ==
    [response |-> text, success |-> success, references |-> refs]

\* An early return that hands out the references it was given.
FallbackWithReferences == QueryResponse(FallbackText, TRUE, references)

\* handle_query, lines 62-66: the early return.
FallbackResponse == QueryResponse(FallbackText, TRUE, <<>>)

\* A handler without the early return.
CheckContextAlwaysGenerates ==
    /\ pc = "check_context"
    /\ pc' = "generate"
    /\ UNCHANGED <<top_k, indexes, i, namespaces, j, all_results,
                   top_results, contexts, context, references, outcome,
                   response, detail, calls, inflight>>

\* handle_query, lines 61-66: `if not context`.
CheckContext ==
    /\ pc = "check_context"
    /\ IF context = <<>>
       THEN /\ response' = FallbackResponse
            /\ outcome' = "response"
            /\ pc' = "done"
       ELSE /\ pc' = "generate"
            /\ UNCHANGED <<response, outcome>>
    /\ UNCHANGED <<top_k, indexes, i, namespaces, j, all_results,
                   top_results, contexts, context, references, detail, calls,
                   inflight>>

\* handle_query, lines 69-75: generate_response, then the response.
Generate ==
    /\ pc = "generate"
    /\ \/ \E answer \in Answers :
          /\ calls' = Append(calls, Call("chat", "", "", TRUE, <<>>))
          /\ response' = QueryResponse(answer, TRUE, references)
          /\ outcome' = "response"
          /\ pc' = "done"
          /\ UNCHANGED detail
       \/ \E e \in ProviderErrors :
          /\ calls' = Append(calls, Call("chat", "", "", FALSE, <<>>))
          /\ Raise500(<<"OpenAI Chat API call failed: ", e>>)
          /\ UNCHANGED response
    /\ UNCHANGED <<top_k, indexes, i, namespaces, j, all_results,
                   top_results, contexts, context, references, inflight>>

Next ==
    \/ Validate
    \/ Embed
    \/ ListIndexes
    \/ ListNamespaces
    \/ QueryIssue
    \/ QueryReturnMatches
    \/ QueryReturnFailure
    \/ SortAndTruncate
    \/ Extract
    \/ CheckContext
    \/ Generate

Spec == Init /\ [][Next]_vars

(* ------------------------------ the claims ----------------------------- *)

\* How many matches of a sequence carry text, and how many carry both
\* file_name and page.
NumWithText(s) == Cardinality({p \in 1..Len(s) : HasText(s[p])})

NumWithFileAndPage(s) == Cardinality({p \in 1..Len(s) : HasFileAndPage(s[p])})

\* The fan-out is over and all_results was ranked and truncated: the indexes
\* were listed and the request is at or past the extraction.
Ranked ==
    /\ pc \in {"extract", "check_context", "generate", "done"}
    /\ \E p \in 1..Len(calls) : calls[p].op = "list_indexes" /\ calls[p].ok

\* extract_context_and_references has returned its pair.
Extracted ==
    \/ pc \in {"check_context", "generate"}
    \/ pc = "done" /\ outcome = "response"
    \/ pc = "done" /\ \E p \in 1..Len(calls) : calls[p].op = "chat"

\* C1: the number of References of a QueryResponse never exceeds the
\* request's top_k, whatever the namespaces returned.
C1_ReferencesAtMostTopK ==
    outcome = "response" => Len(response.references) <= top_k

\* C1 happens: more matches with file_name and page were collected than
\* top_k, and the response carries exactly top_k References.
C1_Witness ==
    /\ outcome = "response"
    /\ NumWithFileAndPage(all_results) > top_k
    /\ Len(response.references) = top_k

\* t is s ordered by non-increasing score, equal scores in the order of s,
\* cut to its first k entries: f tells for each kept entry where it stood.
IsStableTopK(s, t, k) ==
    /\ Len(t) = Min(k, Len(s))
    /\ \E f \in [1..Len(t) -> 1..Len(s)] :
        /\ \A p \in 1..Len(t) : t[p] = s[f[p]]
        /\ \A p, q \in 1..Len(t) : p < q =>
              /\ f[p] # f[q]
              /\ t[p].score >= t[q].score
              /\ t[p].score = t[q].score => f[p] < f[q]
        /\ \A r \in 1..Len(s) : (\A p \in 1..Len(t) : f[p] # r) =>
              \A p \in 1..Len(t) :
                  \/ s[r].score < t[p].score
                  \/ s[r].score = t[p].score /\ r > f[p]

\* refs lists, in the order of t, one Reference per entry of some entries
\* of t: the same file, page and namespace.
FollowsOrderOf(refs, t) ==
    \E g \in [1..Len(refs) -> 1..Len(t)] :
        /\ \A p, q \in 1..Len(refs) : p < q => g[p] < g[q]
        /\ \A p \in 1..Len(refs) :
              /\ HasFileAndPage(t[g[p]])
              /\ refs[p].file_name = t[g[p]].metadata.file_name
              /\ refs[p].page = t[g[p]].metadata.page.num
              /\ refs[p].namespace = t[g[p]].namespace

\* C2: after the fan-out the kept matches are the first top_k of all
\* collected matches in non-increasing score order, ties in the order the
\* searches returned them; the References of the response follow that order.
C2_RankedStableTopK ==
    /\ Ranked => IsStableTopK(all_results, top_results, top_k)
    /\ outcome = "response" => FollowsOrderOf(response.references, top_results)

\* C2 happens: scores [0.9, 0.95, 0.8] with top_k = 2 keep 0.95 then 0.9.
C2_Witness ==
    /\ Ranked
    /\ top_k = 2
    /\ [p \in 1..Len(all_results) |-> all_results[p].score] = <<90, 95, 80>>
    /\ [p \in 1..Len(top_results) |-> top_results[p].score] = <<95, 90>>

\* C5: a request whose top_k is outside 1..20 is rejected with no provider
\* call of any kind and no QueryResponse.
C5_InvalidTopKRejected ==
    (pc # "received" /\ (top_k < MinTopK \/ top_k > MaxTopK)) =>
        /\ pc = "done"
        /\ outcome = "rejected"
        /\ calls = <<>>
        /\ inflight = 0
        /\ response = NoResponse

\* C5 happens: top_k = 21 was rejected.
C5_Witness ==
    pc = "done" /\ top_k = MaxTopK + 1 /\ outcome = "rejected"

\* None of the kept matches carries text.
NoKeptText == \A p \in 1..Len(top_results) : ~HasText(top_results[p])

\* Every kept match with file_name and page has a numeric page.
KeptPagesNumeric ==
    \A p \in 1..Len(top_results) :
        HasFileAndPage(top_results[p]) =>
            "num" \in DOMAIN top_results[p].metadata.page

TheFallback ==
    [response |-> FallbackText, success |-> TRUE, references |-> <<>>]

\* C3 as stated: when no kept match carries text, the response is exactly
\* the fixed fallback answer, success = true and no references.
C3_NoTextGivesFallback ==
    (Ranked /\ pc = "done" /\ NoKeptText) =>
        outcome = "response" /\ response = TheFallback

\* C3, amended: when no kept match carries text, the response is exactly the
\* fallback, provided the extraction raised no error; when a kept match with
\* file_name and page has a page that is no integer, the request ends in
\* HTTP 500 instead.
C3_NoTextGivesFallbackOr500 ==
    (Ranked /\ pc = "done" /\ NoKeptText) =>
        IF KeptPagesNumeric
        THEN outcome = "response" /\ response = TheFallback
        ELSE outcome = "error" /\ response = NoResponse

\* C3 happens: a kept match carries file_name and page but none carries
\* text, and the fallback went out with no reference.
C3_Witness ==
    /\ pc = "done"
    /\ outcome = "response"
    /\ response = TheFallback
    /\ NoKeptText
    /\ \E p \in 1..Len(top_results) : HasFileAndPage(top_results[p])

\* The namespace searches made so far, in order.
QueryCalls == SelectSeq(calls, LAMBDA c : c.op = "query")

\* The namespace enumerations made so far, in order.
NamespaceCalls == SelectSeq(calls, LAMBDA c : c.op = "list_namespaces")

\* The concatenation of the results of a sequence of calls.
RECURSIVE ResultsOf(_)
ResultsOf(cs) ==
    IF cs = <<>> THEN <<>> ELSE Head(cs).result \o ResultsOf(Tail(cs))

\* C4: a failed namespace search, or a failed namespace enumeration of one
\* index, does not abort the request: every index is still enumerated, every
\* enumerated namespace is still searched, and every match a successful
\* search returned is in the merged list and is kept unless top_k matches
\* that rank at least as high are.
C4_PartialFailureTolerated ==
    Ranked =>
        /\ \A p \in 1..Len(indexes) :
              \E c \in 1..Len(calls) :
                  /\ calls[c].op = "list_namespaces"
                  /\ calls[c].index_name = indexes[p]
        /\ \A c \in 1..Len(calls) :
              (calls[c].op = "list_namespaces" /\ calls[c].ok) =>
                  \A n \in 1..Len(calls[c].result) :
                      \E q \in (c + 1)..Len(calls) :
                          /\ calls[q].op = "query"
                          /\ calls[q].index_name = calls[c].index_name
                          /\ calls[q].namespace = calls[c].result[n]
        /\ \A c \in 1..Len(calls) :
              (calls[c].op = "query" /\ calls[c].ok) =>
                  \A n \in 1..Len(calls[c].result) :
                      /\ \E r \in 1..Len(all_results) :
                            all_results[r] = calls[c].result[n]
                      /\ \/ \E t \in 1..Len(top_results) :
                               top_results[t] = calls[c].result[n]
                         \/ /\ Len(top_results) = top_k
                            /\ \A t \in 1..Len(top_results) :
                                  top_results[t].score
                                      >= calls[c].result[n].score

\* C4 happens: the search of one namespace failed, a later search returned a
\* match and that match is among the kept ones.
C4_Witness ==
    /\ Ranked
    /\ \E c, q \in 1..Len(calls) :
          /\ c < q
          /\ calls[c].op = "query" /\ ~calls[c].ok
          /\ calls[q].op = "query" /\ calls[q].ok
          /\ \E t \in 1..Len(top_results) :
                top_results[t] \in {calls[q].result[n] :
                                        n \in 1..Len(calls[q].result)}

RECURSIVE ListedPairs(_)
ListedPairs(cs) ==
    IF cs = <<>> THEN <<>>
    ELSE [n \in 1..Len(Head(cs).result) |->
              <<Head(cs).index_name, Head(cs).result[n]>>]
         \o ListedPairs(Tail(cs))

\* C7: the searches of a whole-database query are exactly the enumerated
\* (index, namespace) pairs, once each and in enumeration order, at most one
\* is in flight at any time, and all_results is their results merged.
C7_OneSearchPerPairInOrder ==
    /\ inflight \in {0, 1}
    /\ inflight = 1 <=> pc = "query_wait"
    /\ Ranked =>
        /\ [p \in 1..Len(NamespaceCalls) |-> NamespaceCalls[p].index_name]
               = indexes
        /\ [p \in 1..Len(QueryCalls) |->
               <<QueryCalls[p].index_name, QueryCalls[p].namespace>>]
               = ListedPairs(NamespaceCalls)
        /\ all_results = ResultsOf(QueryCalls)

\* C7 happens: indexes A and B with namespaces A:[x] and B:[y], two
\* searches, (A, x) then (B, y), both results in the merged list.
C7_Witness ==
    /\ Ranked
    /\ indexes = <<"A", "B">>
    /\ ListedPairs(NamespaceCalls) = << <<"A", "x">>, <<"B", "y">> >>
    /\ Len(QueryCalls) = 2
    /\ QueryCalls[1].result # <<>>
    /\ QueryCalls[2].result # <<>>
    /\ all_results = QueryCalls[1].result \o QueryCalls[2].result

\* Some call of the history is a chat-completion call.
ChatCalled == \E p \in 1..Len(calls) : calls[p].op = "chat"

\* C8: a validated request ends either in a complete QueryResponse with
\* success = true or in an HTTP 500 that carries the failure's message; a
\* failed embedding, index enumeration, extraction or chat-completion gives
\* the 500, never a response, and references never go out without a
\* generated answer.
C8_ResponseOr500 ==
    /\ pc # "done" =>
          outcome = "none" /\ response = NoResponse /\ detail = <<>>
    /\ (pc = "done" /\ top_k >= MinTopK /\ top_k <= MaxTopK) =>
          \/ /\ outcome = "response"
             /\ response.success
             /\ response.response \in Answers \cup {FallbackText}
             /\ detail = <<>>
          \/ /\ outcome = "error"
             /\ response = NoResponse
             /\ detail # <<>>
    /\ \A p \in 1..Len(calls) :
          (calls[p].op \in {"embed", "list_indexes", "chat"} /\ ~calls[p].ok)
              => /\ pc = "done"
                 /\ outcome = "error"
                 /\ detail # <<>>
                 /\ detail[Len(detail)] \in ProviderErrors
    /\ (Ranked /\ pc # "extract" /\ ~KeptPagesNumeric) =>
          /\ outcome = "error"
          /\ \E p \in 1..Len(detail) :
                detail[p] = "Failed to extract context: "
    /\ (outcome = "response" /\ response.references # <<>>) =>
          /\ response.response \in Answers
          /\ \E p \in 1..Len(calls) : calls[p].op = "chat" /\ calls[p].ok

\* C8 happens: references were extracted, the chat-completion call failed
\* and the request ended in the 500 with the provider's message.
C8_Witness ==
    /\ pc = "done"
    /\ outcome = "error"
    /\ references # <<>>
    /\ calls[Len(calls)].op = "chat"
    /\ ~calls[Len(calls)].ok
    /\ detail = <<"OpenAI Chat API call failed: ", "503 unavailable">>

\* C9: the embedding call is the first provider call and the only one of its
\* kind, and nothing follows a failed one; the index enumeration precedes
\* every namespace enumeration and search; the chat-completion call comes
\* after every search has returned, at most once, and it is made exactly when
\* the merged context is not empty.
C9_SequentialPipeline ==
    /\ \A p \in 1..Len(calls) : calls[p].op = "embed" <=> p = 1
    /\ (pc \notin {"received", "embed"} /\ outcome # "rejected") =>
          Len(calls) >= 1
    /\ (Len(calls) >= 1 /\ ~calls[1].ok) => Len(calls) = 1
    /\ \A p \in 1..Len(calls) :
          calls[p].op \in {"list_namespaces", "query"} =>
              /\ p > 2
              /\ calls[2].op = "list_indexes" /\ calls[2].ok
    /\ \A p \in 1..Len(calls) : calls[p].op = "list_indexes" => p = 2
    /\ \A p \in 1..Len(calls) :
          calls[p].op = "chat" => p = Len(calls) /\ inflight = 0
    /\ pc = "generate" => context # <<>> /\ ~ChatCalled
    /\ (pc = "done" /\ outcome \in {"response", "error"}) =>
          (ChatCalled <=> context # <<>>)

\* C9 happens: embedding, two namespace searches, a context and one
\* chat-completion call that produced the response.
C9_Witness ==
    /\ pc = "done"
    /\ outcome = "response"
    /\ Len(QueryCalls) >= 2
    /\ context # <<>>
    /\ calls[Len(calls)].op = "chat"

\* C10: every Reference of the response names the file, page, namespace and
\* index of the kept match it was created from.
C10_ReferenceKeepsIndexName ==
    outcome = "response" =>
        \A p \in 1..Len(response.references) :
            /\ DOMAIN response.references[p]
                   = {"file_name", "page", "namespace", "index_name"}
            /\ \E t \in 1..Len(top_results) :
                  /\ HasFileAndPage(top_results[t])
                  /\ response.references[p].file_name
                         = top_results[t].metadata.file_name
                  /\ response.references[p].namespace
                         = top_results[t].namespace
                  /\ response.references[p].index_name
                         = top_results[t].index_name

====
